---- MODULE Spec2Model ----
(***************************************************************************)
(* Model of sen/tui.py: the UI view stack (UI.widgets + mainframe body),   *)
(* the key handlers of MainListBox and UI, and the log-streaming worker    *)
(* thread of AsyncScrollableListBox.  The main-loop thread and every       *)
(* worker thread interleave at the granularity of one access to shared     *)
(* state (UI.widgets, the frame body, a view's stop event, a view's        *)
(* walker) per step.                                                       *)
(***************************************************************************)
EXTENDS Integers, Sequences, FiniteSets, TLC

\* ---- bounds of the model ------------------------------------------------
MaxStatic == 1      \* ScrollableListBox views created over a run
MaxStream == 1      \* AsyncScrollableListBox views (and workers) created
MaxLines  == 2      \* lines a log generator yields before it stalls
ExtraIndex == 2     \* how far beyond len(widgets) an index is tried

\* ---- view identities ----------------------------------------------------
main_list == <<"list", 0>>
SolidFill == <<"solidfill", 0>>
Static(k) == <<"static", k>>
Stream(k) == <<"stream", k>>
StreamIds == 1..MaxStream
StaticIds == 1..MaxStatic
IsStream(w) == w[1] = "stream"

ObjectKinds == {"image", "container"}

\* ---- text: a string is a sequence of characters --------------------------
NL == "\n"
SP == " "
Whitespace == {SP, NL}

RECURSIVE LStrip(_)
LStrip(s) == IF s # <<>> /\ Head(s) \in Whitespace THEN LStrip(Tail(s)) ELSE s

RECURSIVE RStrip(_)
RStrip(s) ==
    IF s # <<>> /\ s[Len(s)] \in Whitespace
    THEN RStrip(SubSeq(s, 1, Len(s) - 1)) ELSE s

\* str.strip()
Strip(s) == RStrip(LStrip(s))

\* str.split("\n"): the pieces between separators, empty pieces included
RECURSIVE SplitAcc(_, _, _)
SplitAcc(s, cur, acc) ==
    IF s = <<>> THEN Append(acc, cur)
    ELSE IF Head(s) = NL THEN SplitAcc(Tail(s), <<>>, Append(acc, cur))
    ELSE SplitAcc(Tail(s), Append(cur, Head(s)), acc)

Split(s) == SplitAcc(s, <<>>, <<>>)

\* AsyncScrollableListBox.__init__: the seed of log_texts
RECURSIVE SeedLines(_)
SeedLines(pieces) ==
    IF pieces = <<>> THEN <<>>
    ELSE LET log_entry == Strip(Head(pieces))
         IN  IF log_entry # <<>> THEN <<log_entry>> \o SeedLines(Tail(pieces))
             ELSE SeedLines(Tail(pieces))

InitialLines(static_data) == SeedLines(Split(static_data))

\* what DockerBackend.logs may return: (logs_data, logs_generator)
LogsResults == <<
    [data |-> <<"a", NL, "b", NL>>,
     gen  |-> << <<"c">>, <<"d">> >>],
    [data |-> <<SP, "a", SP, NL, NL, SP>>,
     gen  |-> << <<SP, "c", NL>>, <<NL>>, <<"d", SP>>, <<"e">> >>] >>

\* ---- json.dumps(inspect_data, indent=2) ------------------------------------
\* inspect_data is a dict of string values: a sequence of <<key, value>> pairs
QUOTE == "\""

InspectResults == <<
    << <<"State", "running">> >>,
    << <<"Id", "abc123">>, <<"State", "exited">> >> >>

\* variant: json.dumps without indent
DumpsItemCompact(pair) == <<QUOTE, pair[1], QUOTE, ":", SP, QUOTE, pair[2], QUOTE>>

\* one "key": "value" member at indentation level 1
DumpsItem(pair) ==
    <<NL, SP, SP, QUOTE, pair[1], QUOTE, ":", SP, QUOTE, pair[2], QUOTE>>

RECURSIVE DumpsItems(_)
DumpsItems(pairs) ==
    IF pairs = <<>> THEN <<>>
    ELSE DumpsItem(Head(pairs))
            \o (IF Tail(pairs) = <<>> THEN <<>> ELSE <<",">>)
            \o DumpsItems(Tail(pairs))

Dumps(obj) ==
    IF obj = <<>> THEN <<"{", "}">>
    ELSE <<"{">> \o DumpsItems(obj) \o <<NL, "}">>

\* ---- python list operations ---------------------------------------------
Member(seq, x) == \E i \in 1..Len(seq) : seq[i] = x

\* list.index(x), 0-based; defined when x is a member
Index(seq, x) == (CHOOSE i \in 1..Len(seq) :
                     seq[i] = x /\ \A j \in 1..(i - 1) : seq[j] # x) - 1

\* variant: list.pop() in place of list.remove(x)
RemovePop(seq, x) == SubSeq(seq, 1, Len(seq) - 1)

\* list.remove(x): drops the first occurrence
Remove(seq, x) ==
    LET i == Index(seq, x) + 1
    IN  SubSeq(seq, 1, i - 1) \o SubSeq(seq, i + 1, Len(seq))

\* variant: negative indices are not accepted
InRangeNoNegative(seq, i) == i >= 0 /\ i < Len(seq)

\* seq[i] raises IndexError outside -len..len-1
InRange(seq, i) == i >= -Len(seq) /\ i < Len(seq)
GetItem(seq, i) == IF i >= 0 THEN seq[i + 1] ELSE seq[Len(seq) + i + 1]

\* UI.pick_main_widget: the widget it displays for index i
PickTarget(seq, i) == IF InRange(seq, i) THEN GetItem(seq, i) ELSE seq[1]

\* variants: the guard is missing / the guard is inverted
IsMainListNever(w) == FALSE
IsMainListInverted(w) == w # main_list

\* UI.remove_current_widget: the guard that protects the main list
IsMainList(w) == w = main_list

\* variant: the membership test is missing
NotInAlways(w, seq) == TRUE

\* UI.add_and_set_main_widget: "widget not in self.widgets"
NotIn(w, seq) == ~Member(seq, w)

\* variant: the stop event is never consulted
StopIsSetNever(flag) == FALSE
\* variant: the test is inverted
StopIsSetInverted(flag) == ~flag

\* fetch_logs: "if self.stop.is_set(): break"
StopIsSet(flag) == flag

\* variant: the line is appended untrimmed
LogTextRaw(line) == line

\* fetch_logs: the text appended for a produced line
LogText(line) == Strip(line)

VARIABLES
    widgets,    \* UI.widgets
    body,       \* UI.mainframe body (current_widget)
    cpc,        \* position of the main-loop thread
    cw,         \* main-loop local: widget argument / value read from the body
    ci,         \* main-loop local: index passed to pick_main_widget
    call,       \* record of the current / last UI method call of the main loop
    nstatic,    \* ScrollableListBox instances created
    text,       \* per static view: the text it was built with
    nstream,    \* AsyncScrollableListBox instances created
    src,        \* per stream view: which LogsResults entry it was built from
    buf,        \* per stream view: contents of its walker
    pos,        \* per stream view: lines the generator has yielded
    stop,       \* per stream view: self.stop
    wpc,        \* per stream view: position of its fetch_logs thread
    wcall,      \* per stream view: record of the worker's add_and_set call
    lenAtDestroy \* per stream view: len(walker) when stop was first set, else -1

vars == <<widgets, body, cpc, cw, ci, call, nstatic, text, nstream,
          src, buf, pos, stop, wpc, wcall, lenAtDestroy>>

uiVars     == <<widgets, body>>
localVars  == <<cw, ci>>
streamVars == <<src, buf, pos, stop, wpc, lenAtDestroy>>

NoCall == [op |-> "none", pre |-> <<>>, prebody |-> SolidFill, arg |-> 0,
           clean |-> FALSE, ret |-> "none", removed |-> <<>>,
           destroyed |-> <<>>, redraws |-> 0, key |-> "none",
           checked |-> SolidFill]

NoWCall == [pre |-> <<>>, clean |-> FALSE, ret |-> "none"]

\* a method call of the main loop starts: snapshot of the state at entry
Enter(op, arg) == [op |-> op, pre |-> widgets, prebody |-> body, arg |-> arg,
                   clean |-> TRUE, ret |-> "running", removed |-> <<>>,
                   destroyed |-> <<>>, redraws |-> 0, key |-> "none",
                   checked |-> SolidFill]

\* the same, for a call made while the key `key` is being handled
EnterKey(op, arg, key) == [Enter(op, arg) EXCEPT !.key = key]

\* a step of thread k (0 = main loop) interrupts every other thread's call
OthersDirty(k) == [j \in StreamIds |->
                      IF j = k THEN wcall[j] ELSE [wcall[j] EXCEPT !.clean = FALSE]]
CallDirty == [call EXCEPT !.clean = FALSE]

Alive == cpc \notin {"init", "crashed", "exited"}

Init ==
    /\ widgets = <<>>
    /\ body = SolidFill
    /\ cpc = "init"
    /\ cw = main_list
    /\ ci = 0
    /\ call = NoCall
    /\ nstatic = 0
    /\ text = [k \in StaticIds |-> <<>>]
    /\ nstream = 0
    /\ src = [k \in StreamIds |-> 0]
    /\ buf = [k \in StreamIds |-> <<>>]
    /\ pos = [k \in StreamIds |-> 0]
    /\ stop = [k \in StreamIds |-> FALSE]
    /\ wpc = [k \in StreamIds |-> "none"]
    /\ wcall = [k \in StreamIds |-> NoWCall]
    /\ lenAtDestroy = [k \in StreamIds |-> -1]

\* ---- the main-loop thread -----------------------------------------------
Returned(c) == [c EXCEPT !.ret = "returned"]

\* variant: draw_screen() left out
DrawnNot(c) == c

Drawn(c) == [c EXCEPT !.redraws = @ + 1]

\* UI.run: add_and_set_main_widget(self.main_list, redraw=False), then the loop
Run ==
    /\ cpc = "init"
    /\ widgets' = IF NotIn(main_list, widgets) THEN Append(widgets, main_list)
                  ELSE widgets
    /\ body' = main_list
    /\ cpc' = "idle"
    /\ call' = Returned(Enter("add", main_list))
    /\ wcall' = OthersDirty(0)
    /\ UNCHANGED <<localVars, nstatic, text, nstream, streamVars>>

\* 'q' / 'Q': unhandled_input raises ExitMainLoop; daemon threads die with it
KeyQ ==
    /\ cpc = "idle"
    /\ cpc' = "exited"
    /\ wcall' = OthersDirty(0)
    /\ UNCHANGED <<uiVars, localVars, call, nstatic, text, nstream, streamVars>>

\* 'i' on the main list, inspect_image / inspect_container returns
KeyI ==
    /\ cpc = "idle"
    /\ body = main_list
    /\ nstatic < MaxStatic
    /\ \E kind \in ObjectKinds, r \in 1..Len(InspectResults) :
          /\ nstatic' = nstatic + 1
          /\ text' = [text EXCEPT ![nstatic + 1] = Dumps(InspectResults[r])]
          /\ cw' = Static(nstatic + 1)
          /\ call' = EnterKey("add", Static(nstatic + 1), "i")
    /\ cpc' = "add_test"
    /\ wcall' = OthersDirty(0)
    /\ UNCHANGED <<uiVars, ci, nstream, streamVars>>

\* 'i' on the main list, the backend call raises: the loop dies
KeyIFail ==
    /\ cpc = "idle"
    /\ body = main_list
    /\ cpc' = "crashed"
    /\ call' = [EnterKey("inspect", 0, "i") EXCEPT !.ret = "raised"]
    /\ wcall' = OthersDirty(0)
    /\ UNCHANGED <<uiVars, localVars, nstatic, text, nstream, streamVars>>

\* 'l' on the main list with a container row focused, logs() returns:
\* AsyncScrollableListBox.__init__ seeds the walker and starts the thread
KeyL ==
    /\ cpc = "idle"
    /\ body = main_list
    /\ nstream < MaxStream
    /\ \E r \in 1..Len(LogsResults) :
          LET k == nstream + 1 IN
          /\ nstream' = k
          /\ src' = [src EXCEPT ![k] = r]
          /\ buf' = [buf EXCEPT ![k] = InitialLines(LogsResults[r].data)]
          /\ stop' = [stop EXCEPT ![k] = FALSE]
          /\ wpc' = [wpc EXCEPT ![k] = "next"]
          /\ cw' = Stream(k)
          /\ call' = EnterKey("add", Stream(k), "l")
    /\ cpc' = "add_test"
    /\ wcall' = OthersDirty(0)
    /\ UNCHANGED <<uiVars, ci, nstatic, text, pos, lenAtDestroy>>

\* 'l' on the main list, logs() raises
KeyLFail ==
    /\ cpc = "idle"
    /\ body = main_list
    /\ cpc' = "crashed"
    /\ call' = [EnterKey("logs", 0, "l") EXCEPT !.ret = "raised"]
    /\ wcall' = OthersDirty(0)
    /\ UNCHANGED <<uiVars, localVars, nstatic, text, nstream, streamVars>>

\* 'l' with an image row focused, or 'i' / 'l' while another view is the
\* body (ListBox.keypress returns the key, unhandled_input ignores it)
KeyIgnored ==
    /\ cpc = "idle"
    /\ \E key \in {"i", "l"}, kind \in ObjectKinds :
          \/ body = main_list /\ key = "l" /\ kind = "image"
          \/ body # main_list
    /\ call' = [NoCall EXCEPT !.op = "ignored"]
    /\ wcall' = OthersDirty(0)
    /\ UNCHANGED <<uiVars, cpc, localVars, nstatic, text, nstream, streamVars>>

\* 'p': pick_main_widget(self.current_widget_index - 1)
KeyP ==
    /\ cpc = "idle"
    /\ cpc' = "cur"
    /\ ci' = -1
    /\ call' = EnterKey("key", 0, "p")
    /\ wcall' = OthersDirty(0)
    /\ UNCHANGED <<uiVars, cw, nstatic, text, nstream, streamVars>>

\* 'n': pick_main_widget(self.current_widget_index + 1)
KeyN ==
    /\ cpc = "idle"
    /\ cpc' = "cur"
    /\ ci' = 1
    /\ call' = EnterKey("key", 0, "n")
    /\ wcall' = OthersDirty(0)
    /\ UNCHANGED <<uiVars, cw, nstatic, text, nstream, streamVars>>

\* current_widget: self.mainframe.get_body()
CCur ==
    /\ cpc = "cur"
    /\ cw' = body
    /\ cpc' = "idx"
    /\ wcall' = OthersDirty(0)
    /\ UNCHANGED <<uiVars, ci, call, nstatic, text, nstream, streamVars>>

\* current_widget_index: self.widgets.index(...), then the call of pick_main_widget
CIdx ==
    /\ cpc = "idx"
    /\ Member(widgets, cw)
    /\ ci' = Index(widgets, cw) + ci
    /\ call' = [EnterKey("show", Index(widgets, cw) + ci, call.key)
                   EXCEPT !.clean = call.clean]
    /\ cpc' = "pick_len"
    /\ wcall' = OthersDirty(0)
    /\ UNCHANGED <<uiVars, cw, nstatic, text, nstream, streamVars>>

\* list.index raises ValueError
CIdxRaise ==
    /\ cpc = "idx"
    /\ ~Member(widgets, cw)
    /\ cpc' = "crashed"
    /\ wcall' = OthersDirty(0)
    /\ UNCHANGED <<uiVars, localVars, call, nstatic, text, nstream, streamVars>>

\* pick_main_widget: "if len(self.widgets) == 1: return"
CPickLen ==
    /\ cpc = "pick_len"
    /\ IF Len(widgets) = 1
       THEN /\ cpc' = "idle"
            /\ call' = Returned(call)
            /\ cw' = main_list
            /\ ci' = 0
       ELSE /\ cpc' = "pick_get"
            /\ UNCHANGED <<call, cw, ci>>
    /\ wcall' = OthersDirty(0)
    /\ UNCHANGED <<uiVars, nstatic, text, nstream, streamVars>>

\* pick_main_widget: self.widgets[i], or self.widgets[0] on IndexError
CPickGet ==
    /\ cpc = "pick_get"
    /\ cw' = PickTarget(widgets, ci)
    /\ cpc' = "pick_set"
    /\ wcall' = OthersDirty(0)
    /\ UNCHANGED <<uiVars, ci, call, nstatic, text, nstream, streamVars>>

\* pick_main_widget: _set_main_widget(widget, True)
CPickSet ==
    /\ cpc = "pick_set"
    /\ body' = cw
    /\ call' = Returned(Drawn(call))
    /\ cpc' = "idle"
    /\ cw' = main_list
    /\ ci' = 0
    /\ wcall' = OthersDirty(0)
    /\ UNCHANGED <<widgets, nstatic, text, nstream, streamVars>>

\* 'x': remove_current_widget()
KeyX ==
    /\ cpc = "idle"
    /\ cpc' = "rm_check"
    /\ call' = EnterKey("remove", 0, "x")
    /\ wcall' = OthersDirty(0)
    /\ UNCHANGED <<uiVars, localVars, nstatic, text, nstream, streamVars>>

\* "if self.current_widget == self.main_list: return"
RmCheck ==
    /\ cpc = "rm_check"
    /\ IF IsMainList(body)
       THEN /\ cpc' = "idle"
            /\ call' = [call EXCEPT !.ret = "refused", !.checked = body]
       ELSE /\ cpc' = "rm_cur"
            /\ call' = [call EXCEPT !.checked = body]
    /\ wcall' = OthersDirty(0)
    /\ UNCHANGED <<uiVars, localVars, nstatic, text, nstream, streamVars>>

\* the argument of self.widgets.remove(self.current_widget)
RmCur ==
    /\ cpc = "rm_cur"
    /\ cw' = body
    /\ cpc' = "rm_remove"
    /\ wcall' = OthersDirty(0)
    /\ UNCHANGED <<uiVars, ci, call, nstatic, text, nstream, streamVars>>

\* self.widgets.remove(...)
RmRemove ==
    /\ cpc = "rm_remove"
    /\ Member(widgets, cw)
    /\ widgets' = Remove(widgets, cw)
    /\ call' = [call EXCEPT !.removed = Append(@, cw)]
    /\ cpc' = "rm_getattr"
    /\ wcall' = OthersDirty(0)
    /\ UNCHANGED <<body, localVars, nstatic, text, nstream, streamVars>>

\* list.remove raises ValueError
RmRemoveRaise ==
    /\ cpc = "rm_remove"
    /\ ~Member(widgets, cw)
    /\ cpc' = "crashed"
    /\ call' = [call EXCEPT !.ret = "raised"]
    /\ wcall' = OthersDirty(0)
    /\ UNCHANGED <<uiVars, localVars, nstatic, text, nstream, streamVars>>

\* destroy_method = getattr(self.current_widget, "destroy", None)
RmGetattr ==
    /\ cpc = "rm_getattr"
    /\ cw' = body
    /\ cpc' = IF IsStream(body) THEN "rm_destroy" ELSE "rm_set"
    /\ wcall' = OthersDirty(0)
    /\ UNCHANGED <<uiVars, ci, call, nstatic, text, nstream, streamVars>>

\* destroy_method(): AsyncScrollableListBox.destroy sets the stop event
RmDestroy ==
    /\ cpc = "rm_destroy"
    /\ LET k == cw[2] IN
          /\ stop' = [stop EXCEPT ![k] = TRUE]
          /\ lenAtDestroy' = [lenAtDestroy EXCEPT
                                 ![k] = IF stop[k] THEN @ ELSE Len(buf[k])]
    /\ call' = [call EXCEPT !.destroyed = Append(@, cw)]
    /\ cpc' = "rm_set"
    /\ wcall' = OthersDirty(0)
    /\ UNCHANGED <<uiVars, localVars, nstatic, text, nstream, src, buf, pos, wpc>>

\* self._set_main_widget(self.main_list, True)
RmSet ==
    /\ cpc = "rm_set"
    /\ body' = main_list
    /\ call' = Returned(Drawn(call))
    /\ cpc' = "idle"
    /\ cw' = main_list
    /\ wcall' = OthersDirty(0)
    /\ UNCHANGED <<widgets, ci, nstatic, text, nstream, streamVars>>

\* add_and_set_main_widget on the main loop: "if widget not in self.widgets"
CAddTest ==
    /\ cpc = "add_test"
    /\ cpc' = IF NotIn(cw, widgets) THEN "add_append" ELSE "add_set"
    /\ wcall' = OthersDirty(0)
    /\ UNCHANGED <<uiVars, localVars, call, nstatic, text, nstream, streamVars>>

\* self.widgets.append(widget)
CAddAppend ==
    /\ cpc = "add_append"
    /\ widgets' = Append(widgets, cw)
    /\ cpc' = "add_set"
    /\ wcall' = OthersDirty(0)
    /\ UNCHANGED <<body, localVars, call, nstatic, text, nstream, streamVars>>

\* self._set_main_widget(widget, redraw)
CAddSet ==
    /\ cpc = "add_set"
    /\ body' = cw
    /\ call' = Returned(Drawn(call))
    /\ cpc' = "idle"
    /\ cw' = main_list
    /\ wcall' = OthersDirty(0)
    /\ UNCHANGED <<widgets, ci, nstatic, text, nstream, streamVars>>

\* ---- the fetch_logs thread of stream view k -----------------------------
Gen(k) == LogsResults[src[k]].gen
Line(k) == Gen(k)[pos[k]]

\* "for line in generator": the generator yields its next line
WNext(k) ==
    /\ Alive /\ wpc[k] = "next"
    /\ pos[k] < Len(Gen(k)) /\ pos[k] < MaxLines
    /\ pos' = [pos EXCEPT ![k] = @ + 1]
    /\ wpc' = [wpc EXCEPT ![k] = "check"]
    /\ call' = CallDirty
    /\ wcall' = OthersDirty(k)
    /\ UNCHANGED <<uiVars, cpc, localVars, nstatic, text, nstream, src, buf, stop,
                   lenAtDestroy>>

\* the generator is exhausted: the thread ends
WEnd(k) ==
    /\ Alive /\ wpc[k] = "next"
    /\ pos[k] = Len(Gen(k))
    /\ wpc' = [wpc EXCEPT ![k] = "ended"]
    /\ call' = CallDirty
    /\ wcall' = OthersDirty(k)
    /\ UNCHANGED <<uiVars, cpc, localVars, nstatic, text, nstream, src, buf, pos,
                   stop, lenAtDestroy>>

\* "if self.stop.is_set(): break"
WCheck(k) ==
    /\ Alive /\ wpc[k] = "check"
    /\ wpc' = [wpc EXCEPT ![k] = IF StopIsSet(stop[k]) THEN "stopped" ELSE "append"]
    /\ call' = CallDirty
    /\ wcall' = OthersDirty(k)
    /\ UNCHANGED <<uiVars, cpc, localVars, nstatic, text, nstream, src, buf, pos,
                   stop, lenAtDestroy>>

\* walker.append(Text(line.strip())); walker.set_focus(len(walker) - 1);
\* then the call ui.add_and_set_main_widget(self, True) begins
WAppend(k) ==
    /\ Alive /\ wpc[k] = "append"
    /\ buf' = [buf EXCEPT ![k] = Append(@, LogText(Line(k)))]
    /\ wpc' = [wpc EXCEPT ![k] = "add_test"]
    /\ call' = CallDirty
    /\ wcall' = [OthersDirty(k) EXCEPT
                    ![k] = [pre |-> widgets, clean |-> TRUE, ret |-> "running"]]
    /\ UNCHANGED <<uiVars, cpc, localVars, nstatic, text, nstream, src, pos, stop,
                   lenAtDestroy>>

\* add_and_set_main_widget on the worker: "if widget not in self.widgets"
WAddTest(k) ==
    /\ Alive /\ wpc[k] = "add_test"
    /\ wpc' = [wpc EXCEPT ![k] = IF NotIn(Stream(k), widgets)
                                 THEN "add_append" ELSE "add_set"]
    /\ call' = CallDirty
    /\ wcall' = OthersDirty(k)
    /\ UNCHANGED <<uiVars, cpc, localVars, nstatic, text, nstream, src, buf, pos,
                   stop, lenAtDestroy>>

\* self.widgets.append(widget)
WAddAppend(k) ==
    /\ Alive /\ wpc[k] = "add_append"
    /\ widgets' = Append(widgets, Stream(k))
    /\ wpc' = [wpc EXCEPT ![k] = "add_set"]
    /\ call' = CallDirty
    /\ wcall' = OthersDirty(k)
    /\ UNCHANGED <<body, cpc, localVars, nstatic, text, nstream, src, buf, pos,
                   stop, lenAtDestroy>>

\* self._set_main_widget(widget, True): set_body and draw_screen
WAddSet(k) ==
    /\ Alive /\ wpc[k] = "add_set"
    /\ body' = Stream(k)
    /\ wpc' = [wpc EXCEPT ![k] = "next"]
    /\ call' = CallDirty
    /\ wcall' = [OthersDirty(k) EXCEPT ![k].ret = "returned"]
    /\ UNCHANGED <<widgets, cpc, localVars, nstatic, text, nstream, src, buf, pos,
                   stop, lenAtDestroy>>

Worker(k) ==
    \/ WNext(k) \/ WEnd(k) \/ WCheck(k) \/ WAppend(k)
    \/ WAddTest(k) \/ WAddAppend(k) \/ WAddSet(k)

Controller ==
    \/ Run \/ KeyQ \/ KeyI \/ KeyIFail \/ KeyL \/ KeyLFail \/ KeyIgnored
    \/ KeyP \/ KeyN \/ CCur \/ CIdx \/ CIdxRaise
    \/ CPickLen \/ CPickGet \/ CPickSet
    \/ KeyX \/ RmCheck \/ RmCur \/ RmRemove \/ RmRemoveRaise
    \/ RmGetattr \/ RmDestroy \/ RmSet
    \/ CAddTest \/ CAddAppend \/ CAddSet

Next == Controller \/ \E k \in StreamIds : Worker(k)

Spec == Init /\ [][Next]_vars

\* the scheduler runs every thread that can take a step of its own code; the
\* backend is free to stall (no fairness for the generator or the keyboard)
WorkerCode(k) ==
    WCheck(k) \/ WAppend(k) \/ WAddTest(k) \/ WAddAppend(k) \/ WAddSet(k)

FairSpec == Spec /\ \A k \in StreamIds : WF_vars(WorkerCode(k))

\* ======================= properties ======================================

Started == cpc # "init"
CreatedStreams == {k \in StreamIds : wpc[k] # "none"}
MainLoopStep == cpc' # cpc

\* C1: after startup the main list is in the view stack at index 0, whatever
\* keys were pressed and however the workers interleaved.
C1_ListViewAtIndexZero ==
    Started => Len(widgets) >= 1 /\ widgets[1] = main_list

\* C1 witness: a view has been removed and the stack still holds another view
C1_Witness ==
    /\ call.op = "remove" /\ call.ret = "returned" /\ call.removed # <<>>
    /\ Len(widgets) >= 2 /\ widgets[1] = main_list

\* C2: no view occurs at two positions of the view stack.
C2_NoDuplicateViews ==
    \A i, j \in 1..Len(widgets) : i # j => widgets[i] # widgets[j]

\* seq with its i-th element dropped, the others in their order
WithoutAt(seq, i) == [j \in 1..(Len(seq) - 1) |-> IF j < i THEN seq[j] ELSE seq[j + 1]]

C4_RefusalState ==
    (/\ call.op = "remove" /\ call.clean
     /\ call.prebody = main_list
     /\ call.ret # "running")
    => /\ call.ret = "refused"
       /\ widgets = call.pre
       /\ body = main_list
       /\ call.removed = <<>>
       /\ call.destroyed = <<>>
       /\ call.redraws = 0

C4_RefusalStep ==
    (/\ MainLoopStep
     /\ \/ cpc = "idle" /\ cpc' = "rm_check"
        \/ cpc = "rm_check" /\ body = main_list)
    => /\ stop' = stop
       /\ widgets' = widgets
       /\ body' = body
       /\ cpc = "rm_check" => cpc' = "idle"

C4_RemoveOnListViewRefused ==
    [](C4_RefusalState) /\ [][C4_RefusalStep]_vars

\* C4 witness: a refusal with other views in the stack
C4_Witness ==
    /\ call.op = "remove" /\ call.clean /\ call.ret = "refused"
    /\ Len(widgets) >= 2 /\ \E k \in StreamIds : Member(widgets, Stream(k))

\* C5: after an uninterrupted pick_main_widget(i) with 0 <= i < len(widgets)
\* returns, current_widget_index equals i.
C5_ShowValidIndex ==
    (/\ call.op = "show" /\ call.clean /\ call.ret = "returned"
     /\ call.arg >= 0 /\ call.arg < Len(call.pre))
    => /\ Member(widgets, body)
       /\ Index(widgets, body) = call.arg

\* C6: on a stack of N > 1 views an uninterrupted pick_main_widget(-1)
\* displays the view at index N-1, pick_main_widget(i) for every i >= N
\* displays the view at index 0, and neither changes the stack.
C6_ShowWraps ==
    /\ (/\ call.op = "show" /\ call.clean /\ call.ret = "returned"
        /\ Len(call.pre) > 1)
       => /\ widgets = call.pre
          /\ call.arg = -1 => body = call.pre[Len(call.pre)]
          /\ call.arg >= Len(call.pre) => body = call.pre[1]
    /\ Len(widgets) > 1 =>
          /\ PickTarget(widgets, -1) = widgets[Len(widgets)]
          /\ \A i \in Len(widgets)..(Len(widgets) + ExtraIndex) :
                PickTarget(widgets, i) = widgets[1]

\* C6 witness: 'p' on the first view of a stack of three showed the last one
C6_Witness ==
    /\ call.op = "show" /\ call.clean /\ call.ret = "returned"
    /\ call.arg = -1 /\ Len(call.pre) = 3 /\ body = call.pre[3]

\* C7: an uninterrupted add_and_set_main_widget(v) leaves v displayed and a
\* member; the stack grows by one exactly if v was not a member before, so a
\* second call with the same v leaves the length unchanged.
AddEffect(v, pre) ==
    /\ body = v
    /\ Member(widgets, v)
    /\ Len(widgets) = Len(pre) + (IF Member(pre, v) THEN 0 ELSE 1)

C7_AddAndShowIdempotent ==
    /\ (call.op = "add" /\ call.clean /\ call.ret = "returned")
          => AddEffect(call.arg, call.pre)
    /\ \A k \in StreamIds :
          (wcall[k].clean /\ wcall[k].ret = "returned")
             => AddEffect(Stream(k), wcall[k].pre)

\* C7 witness: the worker's call for a view that was added before
C7_Witness ==
    \E k \in StreamIds :
        /\ wcall[k].clean /\ wcall[k].ret = "returned"
        /\ Member(wcall[k].pre, Stream(k))
        /\ Len(widgets) = Len(wcall[k].pre)

\* C8: once destroy() has set a view's stop flag its buffer never changes.
C8_BufferFrozenStep == \A k \in StreamIds : stop[k] => buf'[k] = buf[k]

C8_NoAppendAfterDestroy == [][C8_BufferFrozenStep]_vars

\* C9: at most one line is appended to a view's buffer after destroy(), and
\* none once the worker has seen the stop flag set (it leaves the loop there).
C9_AtMostOne ==
    \A k \in StreamIds : stop[k] => Len(buf[k]) <= lenAtDestroy[k] + 1

C9_InertStep ==
    \A k \in StreamIds :
        wpc[k] = "stopped" => /\ buf'[k] = buf[k]
                              /\ pos'[k] = pos[k]
                              /\ wpc'[k] = "stopped"

C9_CancellationEffective == [](C9_AtMostOne) /\ [][C9_InertStep]_vars

\* C9 witness: the in-flight line was appended after destroy(), the next
\* line was produced and dropped at the check
C9_Witness ==
    \E k \in StreamIds :
        /\ stop[k] /\ wpc[k] = "stopped"
        /\ Len(buf[k]) = lenAtDestroy[k] + 1

\* C10: a stream view's buffer is the non-empty trimmed lines of the initial
\* block followed by the trimmed lines of a prefix of what the generator has
\* yielded, and it only ever grows at the end.
ExpectedLogs == <<
    [seed  |-> << <<"a">>, <<"b">> >>,
     lines |-> << <<"c">>, <<"d">> >>],
    [seed  |-> << <<"a">> >>,
     lines |-> << <<"c">>, <<>>, <<"d">>, <<"e">> >>] >>

C10_BufferShape ==
    \A k \in CreatedStreams :
        /\ \E n \in 0..pos[k] :
              buf[k] = ExpectedLogs[src[k]].seed
                         \o SubSeq(ExpectedLogs[src[k]].lines, 1, n)
        /\ (src[k] = 1 /\ wpc[k] = "ended")
              => buf[k] = << <<"a">>, <<"b">>, <<"c">>, <<"d">> >>

C10_AppendOnlyStep ==
    \A k \in CreatedStreams :
        \/ buf'[k] = buf[k]
        \/ /\ Len(buf'[k]) = Len(buf[k]) + 1
           /\ SubSeq(buf'[k], 1, Len(buf[k])) = buf[k]

C10_BufferOrdering == [](C10_BufferShape) /\ [][C10_AppendOnlyStep]_vars

\* C10 witness: "a\nb\n" then c, d streamed to the end
C10_Witness ==
    \E k \in StreamIds :
        /\ src[k] = 1 /\ wpc[k] = "ended"
        /\ buf[k] = << <<"a">>, <<"b">>, <<"c">>, <<"d">> >>

\* a step taken by the fetch_logs thread of stream view k
WorkerStep(k) == wpc[k] # "none" /\ wpc'[k] # wpc[k]

\* C11: no step of a streaming worker adds a view to the stack or removes
\* one: UI.widgets is the same before and after every worker step.
C11_WorkerLeavesStackStep ==
    \A k \in StreamIds : WorkerStep(k) => widgets' = widgets

C11_WorkerNeverMutatesStack == [][C11_WorkerLeavesStackStep]_vars

\* C12: a worker step for stream view s taken while another view is displayed
\* leaves the displayed view as it is and touches no other view's buffer.
C12_WorkerFrameStep ==
    \A k \in StreamIds :
        (WorkerStep(k) /\ body # Stream(k))
           => /\ body' = body
              /\ \A j \in StreamIds \ {k} : buf'[j] = buf[j]

C12_WorkerKeepsDisplayedView == [][C12_WorkerFrameStep]_vars

\* C13: when inspect_image / inspect_container ('i') or logs ('l') raises,
\* the stack and the displayed view stay as they were, no worker is started
\* and the main loop goes on handling keys.
C13_BackendFailureStep ==
    (/\ call' # call
     /\ call'.op \in {"inspect", "logs"}
     /\ call'.ret = "raised")
    => /\ cpc' = "idle"
       /\ widgets' = widgets
       /\ body' = body
       /\ wpc' = wpc

C13_BackendFailureAbsorbed == [][C13_BackendFailureStep]_vars

\* C14: an uninterrupted 'i' on the main list whose inspect call succeeds
\* appends one new static view holding the indented JSON of the payload at the
\* end of the stack, leaves the other members in place, displays the new view
\* and returns to the loop with the key consumed.
ExpectedJson == {
    <<"{", NL, SP, SP, QUOTE, "State", QUOTE, ":", SP, QUOTE, "running", QUOTE,
      NL, "}">>,
    <<"{", NL, SP, SP, QUOTE, "Id", QUOTE, ":", SP, QUOTE, "abc123", QUOTE, ",",
      NL, SP, SP, QUOTE, "State", QUOTE, ":", SP, QUOTE, "exited", QUOTE,
      NL, "}">> }

RedrawsOfShowAndRemove ==
    /\ (call.op = "show" /\ call.ret = "returned")
          => /\ call.redraws <= 1
             /\ call.clean => call.redraws = (IF Len(call.pre) = 1 THEN 0 ELSE 1)
    /\ (call.op = "remove" /\ call.ret = "returned") => call.redraws = 1
    /\ (call.op = "remove" /\ call.ret = "refused") => call.redraws = 0
    /\ call.ret \in {"running", "raised"} => call.redraws = 0

C15_RedrawAccounting ==
    /\ (call.op = "add" /\ call.ret = "returned") => call.redraws = 1
    /\ RedrawsOfShowAndRemove

\* C15 (amended): the same for every call made while a key is handled; the
\* call add_and_set_main_widget(main_list, redraw=False) of run() displays the
\* main list and requests no redraw.
C15_RedrawAccountingAfterStartup ==
    /\ (call.op = "add" /\ call.ret = "returned")
          => call.redraws = (IF call.key = "none" THEN 0 ELSE 1)
    /\ (call.op = "add" /\ call.key = "none")
          => call.arg = main_list /\ call.pre = <<>>
    /\ RedrawsOfShowAndRemove

\* C15 witness: 'p' / 'n' changed the displayed view and drew the screen once
C15_Witness ==
    /\ call.op = "show" /\ call.ret = "returned"
    /\ body # call.prebody /\ call.redraws = 1

\* C16: with N views and the view at index k displayed, an uninterrupted 'n'
\* leaves index (k+1) mod N displayed and 'p' index (k-1) mod N, so the two
\* undo each other and N presses of 'n' cycle through the stack; with N = 1
\* nothing changes; the stack is unchanged.
C16_KeyNavigationCyclic ==
    (/\ call.op = "show" /\ call.clean /\ call.ret = "returned"
     /\ Member(call.pre, call.prebody))
    => LET N == Len(call.pre)
           k == Index(call.pre, call.prebody)
           d == IF call.key = "n" THEN 1 ELSE -1
       IN  /\ call.key \in {"n", "p"}
           /\ call.arg = k + d
           /\ widgets = call.pre
           /\ Member(widgets, body)
           /\ Index(widgets, body) = (IF N = 1 THEN k ELSE (k + d) % N)

\* C17: once the stop flag is set, a worker that is handed a line stops at
\* its check, and a worker that is past the check returns to the generator;
\* the flag is checked once per line yielded; destroy() never waits; a worker
\* leaves the generator only by a yielded line or by its end.
Terminated(k) == wpc[k] \in {"stopped", "ended"} \/ ~Alive

C17_WorkerSequenceStep ==
    \A k \in StreamIds :
        /\ (wpc[k] = "next" /\ wpc'[k] # "next")
              => \/ wpc'[k] = "check" /\ pos'[k] = pos[k] + 1
                 \/ wpc'[k] = "ended" /\ pos'[k] = pos[k]
        /\ (wpc[k] # "check" /\ wpc'[k] = "check") => wpc[k] = "next"
        /\ (wpc[k] = "check" /\ wpc'[k] # "check")
              => wpc'[k] = (IF stop[k] THEN "stopped" ELSE "append")

C17_DestroyNeverWaits == cpc = "rm_destroy" => ENABLED RmDestroy

C17_WorkerTerminates ==
    /\ \A k \in StreamIds : (stop[k] /\ wpc[k] = "check") ~> Terminated(k)
    /\ \A k \in StreamIds :
          (stop[k] /\ wpc[k] # "none") ~> (Terminated(k) \/ wpc[k] = "next")
    /\ [](C17_DestroyNeverWaits)
    /\ [][C17_WorkerSequenceStep]_vars

\* C17 witness: destroyed while parked at the generator, then handed a line
\* and stopped without appending it
C17_Witness ==
    \E k \in StreamIds :
        /\ wpc[k] = "stopped" /\ Len(buf[k]) = lenAtDestroy[k]
        /\ pos[k] > Len(buf[k]) - Len(InitialLines(LogsResults[src[k]].data))

\* C18: after startup, whenever the main loop is ready to handle a key the
\* displayed view is a member of the view stack, and the lookups of 'p', 'n'
\* and 'x' (list.index, list.remove) never raise.
C18_DisplayedViewInStack ==
    /\ cpc = "idle" => Member(widgets, body)
    /\ cpc = "idx" => Member(widgets, cw)
    /\ cpc = "rm_remove" => Member(widgets, cw)

\* C19: remove_current_widget() acts on one view: the view it compared with
\* the main list is the view it removes and the only view it destroys.
C19_RemoveActsOnOneView ==
    /\ (call.op = "remove" /\ call.ret = "returned")
          => /\ call.removed = <<call.checked>>
             /\ call.destroyed =
                   IF IsStream(call.checked) THEN <<call.checked>> ELSE <<>>
    /\ (call.op = "remove" /\ call.ret = "running")
          => /\ \A i \in 1..Len(call.removed) : call.removed[i] = call.checked
             /\ \A i \in 1..Len(call.destroyed) : call.destroyed[i] = call.checked

\* C20: a stream view that was destroyed and is neither in the stack nor
\* displayed never becomes a member of the stack or the displayed view again.
C20_RemovedStaysRemovedStep ==
    \A k \in StreamIds :
        (/\ stop[k]
         /\ ~Member(widgets, Stream(k))
         /\ body # Stream(k))
        => /\ ~Member(widgets', Stream(k))
           /\ body' # Stream(k)

C20_RemovalIsPermanent == [][C20_RemovedStaysRemovedStep]_vars

====
